---- MODULE Spec2Model ----
(***************************************************************************)
(* A model of the hn-client search layer: the query builder                *)
(* (buildSearchParams), the search client (HNSearchClient.search), the     *)
(* result normalizer (the object classes and their getters), the methods   *)
(* of the HackerNewsClient facade, and the fetch wrapper of HNAPI.         *)
(*                                                                         *)
(* A string is a sequence of atoms.  An atom is either one reserved        *)
(* character ("," "(" ")" " " "&" "=" ">" "<" "+" "%") or a word made of   *)
(* characters that URL encoding leaves alone (letters, digits, "_", "-",   *)
(* ".", "*").  An optional value (a property that may be undefined) is a   *)
(* set with at most one element.                                           *)
(***************************************************************************)
EXTENDS Integers, Sequences, FiniteSets, TLC

VARIABLES client, op, pc, step, args, init, requests, response, firstRes,
          result, error, view, calls

vars == <<client, op, pc, step, args, init, requests, response, firstRes,
          result, error, view, calls>>

----------------------------------------------------------------------------
(* Optional values *)

Undefined == {}

Some(v) == {v}

IsDefined(o) == o # {}

Val(o) == CHOOSE v \in o : TRUE

----------------------------------------------------------------------------
(* Strings *)

RECURSIVE Join(_, _)
Join(list, sep) ==
  IF Len(list) = 0 THEN <<>>
  ELSE IF Len(list) = 1 THEN list[1]
  ELSE list[1] \o sep \o Join(Tail(list), sep)

NumberToString(n) == <<ToString(n)>>

----------------------------------------------------------------------------
(* helpers.ts: tags *)

createAuthorTag(username) == <<"author_">> \o username

createStoryTag(storyId) == <<"story_">> \o NumberToString(storyId)

STORY == <<"story">>
COMMENT == <<"comment">>
POLL == <<"poll">>
POLLOPT == <<"pollopt">>
SHOW_HN == <<"show_hn">>
ASK_HN == <<"ask_hn">>
FRONT_PAGE == <<"front_page">>
JOB == <<"job">>

\* An element of a tags list: a plain tag (a string) or an OrTags object.
PlainTag(tag) == [or |-> FALSE, tags |-> <<tag>>]

OrTags_from(tags) == [or |-> TRUE, tags |-> tags]

\* Mutant: the group is joined without its parentheses.
OrTags_toString_bare(tags) == Join(tags, <<",">>)

OrTags_toString(tags) == <<"(">> \o Join(tags, <<",">>) \o <<")">>

\* What Array.prototype.join makes of one element of the tags list.
TagElementToString(e) == IF e.or THEN OrTags_toString(e.tags) ELSE e.tags[1]

----------------------------------------------------------------------------
(* URLSearchParams *)

RECURSIVE RemoveName(_, _)
RemoveName(list, name) ==
  IF Len(list) = 0 THEN <<>>
  ELSE IF list[1].name = name THEN RemoveName(Tail(list), name)
  ELSE <<list[1]>> \o RemoveName(Tail(list), name)

RECURSIVE URLSearchParams_set(_, _, _)
URLSearchParams_set(list, name, value) ==
  IF Len(list) = 0 THEN <<[name |-> name, value |-> value]>>
  ELSE IF list[1].name = name
       THEN <<[name |-> name, value |-> value]>> \o RemoveName(Tail(list), name)
  ELSE <<list[1]>> \o URLSearchParams_set(Tail(list), name, value)

\* Mutant: values are written to the query string unescaped.
EncodeAtom_unescaped(a) == a

\* application/x-www-form-urlencoded percent-encoding of one atom
EncodeAtom(a) ==
  CASE a = " " -> "+"
    [] a = "," -> "%2C"
    [] a = "(" -> "%28"
    [] a = ")" -> "%29"
    [] a = "&" -> "%26"
    [] a = "=" -> "%3D"
    [] a = ">" -> "%3E"
    [] a = "<" -> "%3C"
    [] a = "+" -> "%2B"
    [] a = "%" -> "%25"
    [] OTHER -> a

Encode(s) == [i \in 1..Len(s) |-> EncodeAtom(s[i])]

URLSearchParams_toString(list) ==
  Join([i \in 1..Len(list) |->
          Encode(<<list[i].name>>) \o <<"=">> \o Encode(list[i].value)],
       <<"&">>)

----------------------------------------------------------------------------
(* helpers.ts: buildSearchParams *)

\* Mutant: page is tested for truth, so page 0 is left out.
buildSearchParams_truthyPage(params) ==
  LET s0 == <<>>
      s1 == IF IsDefined(params.query) /\ Val(params.query) # <<>>
            THEN URLSearchParams_set(s0, "query", Val(params.query))
            ELSE s0
      s2 == IF IsDefined(params.tags) /\ Len(Val(params.tags)) > 0
            THEN URLSearchParams_set(s1, "tags",
                   Join([i \in 1..Len(Val(params.tags)) |->
                           TagElementToString(Val(params.tags)[i])], <<",">>))
            ELSE s1
      s3 == IF IsDefined(params.numericFilters)
               /\ Len(Val(params.numericFilters)) > 0
            THEN URLSearchParams_set(s2, "numericFilters",
                   Join(Val(params.numericFilters), <<",">>))
            ELSE s2
      s4 == IF IsDefined(params.optionalWords)
               /\ Len(Val(params.optionalWords)) > 0
            THEN URLSearchParams_set(s3, "optionalWords",
                   Join(Val(params.optionalWords), <<" ">>))
            ELSE s3
      s5 == IF IsDefined(params.page) /\ Val(params.page) # 0
            THEN URLSearchParams_set(s4, "page", NumberToString(Val(params.page)))
            ELSE s4
      s6 == IF IsDefined(params.filters) /\ Val(params.filters) # <<>>
            THEN URLSearchParams_set(s5, "filters", Val(params.filters))
            ELSE s5
      s7 == IF IsDefined(params.hitsPerPage)
            THEN URLSearchParams_set(s6, "hitsPerPage",
                   NumberToString(Val(params.hitsPerPage)))
            ELSE s6
      s8 == IF IsDefined(params.restrictSearchableAttributes)
               /\ Len(Val(params.restrictSearchableAttributes)) > 0
            THEN URLSearchParams_set(s7, "restrictSearchableAttributes",
                   Join(Val(params.restrictSearchableAttributes), <<",">>))
            ELSE URLSearchParams_set(s7, "restrictSearchableAttributes",
                   <<"title">>)
  IN  URLSearchParams_toString(s8)

\* Mutant: the builder fills in and clamps hitsPerPage itself.
buildSearchParams_clamping(params) ==
  LET s0 == <<>>
      s1 == IF IsDefined(params.query) /\ Val(params.query) # <<>>
            THEN URLSearchParams_set(s0, "query", Val(params.query))
            ELSE s0
      s2 == IF IsDefined(params.tags) /\ Len(Val(params.tags)) > 0
            THEN URLSearchParams_set(s1, "tags",
                   Join([i \in 1..Len(Val(params.tags)) |->
                           TagElementToString(Val(params.tags)[i])], <<",">>))
            ELSE s1
      s3 == IF IsDefined(params.numericFilters)
               /\ Len(Val(params.numericFilters)) > 0
            THEN URLSearchParams_set(s2, "numericFilters",
                   Join(Val(params.numericFilters), <<",">>))
            ELSE s2
      s4 == IF IsDefined(params.optionalWords)
               /\ Len(Val(params.optionalWords)) > 0
            THEN URLSearchParams_set(s3, "optionalWords",
                   Join(Val(params.optionalWords), <<" ">>))
            ELSE s3
      s5 == IF IsDefined(params.page)
            THEN URLSearchParams_set(s4, "page", NumberToString(Val(params.page)))
            ELSE s4
      s6 == IF IsDefined(params.filters) /\ Val(params.filters) # <<>>
            THEN URLSearchParams_set(s5, "filters", Val(params.filters))
            ELSE s5
      s7 == URLSearchParams_set(s6, "hitsPerPage",
              NumberToString(IF ~IsDefined(params.hitsPerPage) THEN 100
                             ELSE IF Val(params.hitsPerPage) < 1 THEN 1
                             ELSE IF Val(params.hitsPerPage) > 100 THEN 100
                             ELSE Val(params.hitsPerPage)))
      s8 == IF IsDefined(params.restrictSearchableAttributes)
               /\ Len(Val(params.restrictSearchableAttributes)) > 0
            THEN URLSearchParams_set(s7, "restrictSearchableAttributes",
                   Join(Val(params.restrictSearchableAttributes), <<",">>))
            ELSE URLSearchParams_set(s7, "restrictSearchableAttributes",
                   <<"title">>)
  IN  URLSearchParams_toString(s8)

buildSearchParams(params) ==
  LET s0 == <<>>
      s1 == IF IsDefined(params.query) /\ Val(params.query) # <<>>
            THEN URLSearchParams_set(s0, "query", Val(params.query))
            ELSE s0
      s2 == IF IsDefined(params.tags) /\ Len(Val(params.tags)) > 0
            THEN URLSearchParams_set(s1, "tags",
                   Join([i \in 1..Len(Val(params.tags)) |->
                           TagElementToString(Val(params.tags)[i])], <<",">>))
            ELSE s1
      s3 == IF IsDefined(params.numericFilters)
               /\ Len(Val(params.numericFilters)) > 0
            THEN URLSearchParams_set(s2, "numericFilters",
                   Join(Val(params.numericFilters), <<",">>))
            ELSE s2
      s4 == IF IsDefined(params.optionalWords)
               /\ Len(Val(params.optionalWords)) > 0
            THEN URLSearchParams_set(s3, "optionalWords",
                   Join(Val(params.optionalWords), <<" ">>))
            ELSE s3
      s5 == IF IsDefined(params.page)
            THEN URLSearchParams_set(s4, "page", NumberToString(Val(params.page)))
            ELSE s4
      s6 == IF IsDefined(params.filters) /\ Val(params.filters) # <<>>
            THEN URLSearchParams_set(s5, "filters", Val(params.filters))
            ELSE s5
      s7 == IF IsDefined(params.hitsPerPage)
            THEN URLSearchParams_set(s6, "hitsPerPage",
                   NumberToString(Val(params.hitsPerPage)))
            ELSE s6
      s8 == IF IsDefined(params.restrictSearchableAttributes)
               /\ Len(Val(params.restrictSearchableAttributes)) > 0
            THEN URLSearchParams_set(s7, "restrictSearchableAttributes",
                   Join(Val(params.restrictSearchableAttributes), <<",">>))
            ELSE URLSearchParams_set(s7, "restrictSearchableAttributes",
                   <<"title">>)
  IN  URLSearchParams_toString(s8)

\* Mutant: only full matches are kept.
filterHighlightedFields_fullOnly(highlights) ==
  {e \in highlights : e.matchLevel = "full"}

\* helpers.ts: filterHighlightedFields.  A highlight map is a set of
\* entries [field, matchLevel, value] with pairwise distinct fields.
filterHighlightedFields(highlights) ==
  {e \in highlights : e.matchLevel # "none"}

----------------------------------------------------------------------------
(* objects.ts: the normalized objects.  A raw hit is a record              *)
(* [_tags, _highlightResult, data]; data holds every other property.       *)

\* Mutant: an object built with the debug flag marks itself in its tags.
HitObject_debugTag(hit, debug) ==
  [type |-> "hit",
   debug |-> debug,
   highlight |-> filterHighlightedFields(hit._highlightResult),
   tags |-> IF debug THEN Append(hit._tags, <<"debug">>) ELSE hit._tags,
   data |-> hit.data]

HitObject(hit, debug) ==
  [type |-> "hit",
   debug |-> debug,
   highlight |-> filterHighlightedFields(hit._highlightResult),
   tags |-> hit._tags,
   data |-> hit.data]

StoryObject(hit, debug) == [HitObject(hit, debug) EXCEPT !.type = "story"]

CommentObject(hit, debug) == [HitObject(hit, debug) EXCEPT !.type = "comment"]

PollObject(hit, debug) == [HitObject(hit, debug) EXCEPT !.type = "poll"]

PollOptionObject(hit, debug) == [HitObject(hit, debug) EXCEPT !.type = "pollopt"]

\* Mutant: the constructor keeps job_text only when the hit has no url.
JobObject_exclusive(hit, debug) ==
  [HitObject(hit, debug) EXCEPT
     !.type = "job",
     !.data.job_text = IF IsDefined(hit.data.url) THEN Undefined ELSE @]

JobObject(hit, debug) == [HitObject(hit, debug) EXCEPT !.type = "job"]

getPermaLink(objectID) == <<"https://news.ycombinator.com/item?id=">> \o objectID

permaLink(obj) == getPermaLink(obj.data.objectID)

\* A Date is a record [time], the time in seconds; the time of an Invalid
\* Date (NaN) is Undefined.
InvalidDate == [time |-> Undefined]

\* The time of the strings that date-fns parses as ISO-8601; every other
\* string has none.
IsoTime(s) ==
  CASE s = <<"2024-01-15T10:00:00.000Z">> -> Some(1705312800)
    [] s = <<"2024-01-15">> -> Some(1705276800)
    [] OTHER -> Undefined

\* date-fns parseISO: a Date, which is an Invalid Date when the string is not
\* ISO-8601.  It does not throw.
parseISO(s) == IF IsDefined(IsoTime(s)) THEN [time |-> IsoTime(s)] ELSE InvalidDate

\* HitObject.createdAt: Date | null, null being Undefined.  The empty string
\* is the falsy created_at.
createdAt(obj) ==
  IF obj.data.created_at # <<>> THEN Some(parseISO(obj.data.created_at))
  ELSE Undefined

\* Mutant: url || permaLink, which replaces an empty url too.
StoryObject_url_or(obj) ==
  IF IsDefined(obj.data.url) /\ Val(obj.data.url) # <<>> THEN Val(obj.data.url)
  ELSE permaLink(obj)

\* StoryObject.url: this.data.url ?? this.permaLink
StoryObject_url(obj) ==
  IF IsDefined(obj.data.url) THEN Val(obj.data.url) ELSE permaLink(obj)

\* StoryObject.hasExternalUrl: !!this.data.url
hasExternalUrl(obj) == IsDefined(obj.data.url) /\ Val(obj.data.url) # <<>>

\* Mutant: a comment without parent_id counts as a root comment.
isRootComment_absentIsRoot(obj) ==
  ~IsDefined(obj.data.parent_id) \/ obj.data.parent_id = Some(obj.data.story_id)

\* CommentObject.isRootComment: parent_id === story_id, parent_id optional.
isRootComment(obj) == obj.data.parent_id = Some(obj.data.story_id)

\* What a caller reads off one object: the getters every object has, and
\* those of its class (Undefined where the class has no such getter).
accessors(obj) ==
  [type |-> obj.type,
   permaLink |-> permaLink(obj),
   createdAt |-> createdAt(obj),
   url |-> IF obj.type = "story" THEN Some(StoryObject_url(obj)) ELSE Undefined,
   hasExternalUrl |-> IF obj.type = "story" THEN Some(hasExternalUrl(obj))
                      ELSE Undefined,
   isRootComment |-> IF obj.type = "comment" THEN Some(isRootComment(obj))
                     ELSE Undefined]

\* Array.prototype.includes
includes(array, x) == \E i \in 1..Len(array) : array[i] = x

----------------------------------------------------------------------------
(* mod.ts: HNSearchClient *)

DefaultBaseUrl == <<"https://hn.algolia.com/api/v1">>

NewHNSearchClient(options) ==
  [baseUrl |-> IF IsDefined(options.baseUrl) THEN Val(options.baseUrl)
               ELSE DefaultBaseUrl,
   debug |-> IF IsDefined(options.debug) THEN Val(options.debug) ELSE FALSE,
   objDebug |-> IF IsDefined(options.objDebug) THEN Val(options.objDebug)
                ELSE FALSE]

effectiveHitsPerPage(hitsPerPage) ==
  IF ~IsDefined(hitsPerPage) THEN 100
  ELSE IF Val(hitsPerPage) < 0 THEN 1
  ELSE IF Val(hitsPerPage) > 100 THEN 100
  ELSE Val(hitsPerPage)

searchParams(params) ==
  [params EXCEPT
     !.sortByDate = Some(IF ~IsDefined(@) THEN TRUE ELSE Val(@)),
     !.hitsPerPage = Some(effectiveHitsPerPage(@))]

\* Mutant: the endpoint does not depend on sortByDate.
endpoint_ignoresSort(sp) == "search_by_date"

endpoint(sp) == IF Val(sp.sortByDate) THEN "search_by_date" ELSE "search"

searchUrl(baseUrl, params) ==
  LET sp == searchParams(params)
  IN  baseUrl \o <<"/", endpoint(sp), "?">> \o buildSearchParams(sp)

VERSION == "VERSION"

UserAgent == <<"hn-client/", VERSION, " (+https://github.com/j3lte/hn-client)">>

\* Request options are a record [headers, signal] of optional values.  A
\* headers value (HeadersInit) is a record [kind, list, props]: a plain object
\* ("record"), a Headers instance ("Headers") or an array of pairs ("array").
\* props is the set of <<name, value>> own string-keyed properties, with
\* distinct case-sensitive names: the entries of a plain object.  list is the
\* set of <<name, value>> header entries a Headers instance or an array holds.
PlainHeaders(props) == [kind |-> "record", list |-> {}, props |-> props]

HeadersInstance(list) == [kind |-> "Headers", list |-> list, props |-> {}]

HeadersArray(list) == [kind |-> "array", list |-> list, props |-> {}]

\* headers[name] = value: a property assignment, on whatever headers is.
SetHeader(headers, name, value) ==
  [headers EXCEPT !.props = {h \in @ : h[1] # name} \cup {<<name, value>>}]

withUserAgent(i) ==
  [i EXCEPT !.headers =
     Some(SetHeader(IF IsDefined(@) THEN Val(@) ELSE PlainHeaders({}),
                    "User-Agent", UserAgent))]

\* fetch reads the headers of its options: the entries of a Headers instance
\* or an array, the properties of a plain object; other properties of a
\* Headers instance or an array are not headers.
HeaderEntries(headers) ==
  IF headers.kind = "record" THEN headers.props ELSE headers.list

\* Header names are case-insensitive: fetch lower-cases them.
LowerCase(name) ==
  CASE name = "User-Agent" -> "user-agent"
    [] name = "Accept" -> "accept"
    [] OTHER -> name

\* The values fetch sends under a header name; entries whose names differ
\* only in case are sent combined under one name.
HeaderValues(headers, name) ==
  {e[2] : e \in {f \in HeaderEntries(headers) : LowerCase(f[1]) = LowerCase(name)}}

\* HNAPI: the base URL, and new URL(path, baseUrl).toString() for the paths
\* of the client, which all start with "/" and so replace the path of the
\* base.
HNAPI_baseUrl ==
  [origin |-> <<"https://hacker-news.firebaseio.com">>, pathname |-> <<"/v0/">>]

URL(path, base) == base.origin \o path

responseOk(status) == status \in 200..299

\* Mutant: the error names no status.
HttpError_generic(status) == [name |-> "Error", message |-> <<"HTTP error!">>]

HttpError(status) ==
  [name |-> "Error", message |-> <<"HTTP error! status: ", ToString(status)>>]

\* Mutant: the comment test comes before the story test.
normalize_commentFirst(hit, objDebug) ==
  IF includes(hit._tags, COMMENT) THEN CommentObject(hit, objDebug)
  ELSE IF includes(hit._tags, STORY) THEN StoryObject(hit, objDebug)
  ELSE IF includes(hit._tags, POLL) THEN PollObject(hit, objDebug)
  ELSE IF includes(hit._tags, POLLOPT) THEN PollOptionObject(hit, objDebug)
  ELSE IF includes(hit._tags, JOB) THEN JobObject(hit, objDebug)
  ELSE HitObject(hit, objDebug)

normalize(hit, objDebug) ==
  IF includes(hit._tags, STORY) THEN StoryObject(hit, objDebug)
  ELSE IF includes(hit._tags, COMMENT) THEN CommentObject(hit, objDebug)
  ELSE IF includes(hit._tags, POLL) THEN PollObject(hit, objDebug)
  ELSE IF includes(hit._tags, POLLOPT) THEN PollOptionObject(hit, objDebug)
  ELSE IF includes(hit._tags, JOB) THEN JobObject(hit, objDebug)
  ELSE HitObject(hit, objDebug)

\* Mutant: a hit that repeats an earlier hit of the batch is not classified
\* again.
mapHits_seenBefore(hits, objDebug) ==
  [i \in 1..Len(hits) |->
     IF \E j \in 1..(i - 1) : hits[j] = hits[i] THEN HitObject(hits[i], objDebug)
     ELSE normalize(hits[i], objDebug)]

\* Mutant: the hits come out in reverse order.
mapHits_reversed(hits, objDebug) ==
  [i \in 1..Len(hits) |-> normalize(hits[Len(hits) + 1 - i], objDebug)]

mapHits(hits, objDebug) == [i \in 1..Len(hits) |-> normalize(hits[i], objDebug)]

\* Mutant: meta.hitsPerPage is the page size the call asked for.
searchResponse_requestedHitsPerPage(res, objDebug) ==
  [meta |-> [hitsPerPage |-> effectiveHitsPerPage(args.params.hitsPerPage),
             numberOfHits |-> res.nbHits,
             numberOfPages |-> res.nbPages,
             currentPage |-> res.page,
             timeMsProcessing |-> res.processingTimeMS,
             timeMsServer |-> res.serverTimeMS],
   data |-> mapHits(Val(res.hits), objDebug)]

\* The value search returns for a parsed envelope res.
searchResponse(res, objDebug) ==
  [meta |-> [hitsPerPage |-> res.hitsPerPage,
             numberOfHits |-> res.nbHits,
             numberOfPages |-> res.nbPages,
             currentPage |-> res.page,
             timeMsProcessing |-> res.processingTimeMS,
             timeMsServer |-> res.serverTimeMS],
   data |-> mapHits(Val(res.hits), objDebug)]

----------------------------------------------------------------------------
(* The facade: HackerNewsClient.whoIsHiring *)

NoParams ==
  [query |-> Undefined, tags |-> Undefined, numericFilters |-> Undefined,
   optionalWords |-> Undefined, page |-> Undefined, filters |-> Undefined,
   hitsPerPage |-> Undefined, restrictSearchableAttributes |-> Undefined,
   sortByDate |-> Undefined]

NoInit == [headers |-> Undefined, signal |-> Undefined]

whoIsHiringStoryParams ==
  [NoParams EXCEPT
     !.tags = Some(<<PlainTag(STORY), PlainTag(createAuthorTag(<<"whoishiring">>))>>),
     !.hitsPerPage = Some(1)]

\* Mutant: the caller's params are spread last, so its hitsPerPage wins.
whoIsHiringCommentParams_callerWins(params, story) ==
  [params EXCEPT
     !.tags = Some(<<PlainTag(COMMENT)>>),
     !.filters = Some(<<"parent_id", "=">> \o NumberToString(story.data.story_id)),
     !.hitsPerPage = IF IsDefined(@) THEN @ ELSE Some(100)]

whoIsHiringCommentParams(params, story) ==
  [params EXCEPT
     !.tags = Some(<<PlainTag(COMMENT)>>),
     !.filters = Some(<<"parent_id", "=">> \o NumberToString(story.data.story_id)),
     !.hitsPerPage = Some(100)]

\* Mutant: the caller's params are spread last, so its tags and
\* numericFilters win.
frontPageParams_callerWins(params, now) ==
  [params EXCEPT
     !.tags = IF IsDefined(@) THEN @
              ELSE Some(<<PlainTag(FRONT_PAGE), PlainTag(STORY)>>),
     !.numericFilters =
        IF IsDefined(@) THEN @
        ELSE Some(<< <<"created_at_i", ">", "=">>
                       \o NumberToString((now \div 1000) - 7 * 24 * 60 * 60) >>)]

\* HackerNewsClient.frontPage: the params it hands to search; now is
\* Date.now() in milliseconds.
frontPageParams(params, now) ==
  [params EXCEPT
     !.tags = Some(<<PlainTag(FRONT_PAGE), PlainTag(STORY)>>),
     !.numericFilters =
        Some(<< <<"created_at_i", ">", "=">>
                  \o NumberToString((now \div 1000) - 7 * 24 * 60 * 60) >>)]

\* The tags literal of each facade method that is one search with fixed
\* tags; userName is the first argument of the user methods.
facadeTags(method, userName) ==
  CASE method = "newest" -> <<OrTags_from(<<STORY, POLL>>)>>
    [] method = "comments" -> <<PlainTag(COMMENT)>>
    [] method = "askHN" -> <<PlainTag(ASK_HN)>>
    [] method = "showHN" -> <<PlainTag(SHOW_HN)>>
    [] method = "polls" -> <<PlainTag(POLL)>>
    [] method = "jobs" -> <<PlainTag(JOB)>>
    [] method = "userAll" ->
         <<OrTags_from(<<STORY, COMMENT, POLL>>), PlainTag(createAuthorTag(userName))>>
    [] method = "userThreads" ->
         <<PlainTag(COMMENT), PlainTag(createAuthorTag(userName))>>
    [] method = "userSubmitted" ->
         <<OrTags_from(<<STORY, POLL>>), PlainTag(createAuthorTag(userName))>>

\* Mutant: the caller's params are spread last, so its tags win.
facadeParams_callerWins(method, userName, params) ==
  [params EXCEPT !.tags = IF IsDefined(@) THEN @
                          ELSE Some(facadeTags(method, userName))]

\* {...params, tags: [...]}
facadeParams(method, userName, params) ==
  [params EXCEPT !.tags = Some(facadeTags(method, userName))]

\* Mutant: the author tag is pushed whatever userName is.
commentsToStoryParams_alwaysAuthor(storyId, params) ==
  LET rest == [f \in DOMAIN params \ {"userName"} |-> params[f]]
      userName == IF IsDefined(params.userName) THEN Val(params.userName) ELSE <<>>
  IN  [rest EXCEPT !.tags =
         Some(<<PlainTag(COMMENT), PlainTag(createStoryTag(storyId)),
                PlainTag(createAuthorTag(userName))>>)]

\* commentsToStory: params carries an optional userName next to the search
\* parameters; the empty string is the falsy userName.
commentsToStoryParams(storyId, params) ==
  LET rest == [f \in DOMAIN params \ {"userName"} |-> params[f]]
      tags == <<PlainTag(COMMENT), PlainTag(createStoryTag(storyId))>>
  IN  [rest EXCEPT !.tags =
         Some(IF IsDefined(params.userName) /\ Val(params.userName) # <<>>
              THEN Append(tags, PlainTag(createAuthorTag(Val(params.userName))))
              ELSE tags)]

----------------------------------------------------------------------------
(* Reading a request back, as the server does *)

DecodeAtom(a) ==
  CASE a = "+" -> " "
    [] a = "%2C" -> ","
    [] a = "%28" -> "("
    [] a = "%29" -> ")"
    [] a = "%26" -> "&"
    [] a = "%3D" -> "="
    [] a = "%3E" -> ">"
    [] a = "%3C" -> "<"
    [] a = "%2B" -> "+"
    [] a = "%25" -> "%"
    [] OTHER -> a

Decode(s) == [i \in 1..Len(s) |-> DecodeAtom(s[i])]

\* The position of the first sep in s, or 0.
FirstIndex(s, sep) ==
  IF \E i \in 1..Len(s) : s[i] = sep
  THEN CHOOSE i \in 1..Len(s) : s[i] = sep /\ \A j \in 1..(i - 1) : s[j] # sep
  ELSE 0

RECURSIVE Split(_, _)
Split(s, sep) ==
  LET k == FirstIndex(s, sep)
  IN  IF k = 0 THEN <<s>>
      ELSE <<SubSeq(s, 1, k - 1)>> \o Split(SubSeq(s, k + 1, Len(s)), sep)

NonEmpty(x) == Len(x) > 0

\* The name/value pairs of a query string, decoded, in order.
ParseQuery(q) ==
  LET parts == SelectSeq(Split(q, "&"), NonEmpty)
  IN  [i \in 1..Len(parts) |->
         LET k == FirstIndex(parts[i], "=")
         IN  IF k = 0 THEN [name |-> Decode(parts[i]), value |-> <<>>]
             ELSE [name |-> Decode(SubSeq(parts[i], 1, k - 1)),
                   value |-> Decode(SubSeq(parts[i], k + 1, Len(parts[i])))]]

\* The values a query string carries under a name, in order.
RECURSIVE ValuesOf(_, _)
ValuesOf(pairs, name) ==
  IF Len(pairs) = 0 THEN <<>>
  ELSE (IF pairs[1].name = <<name>> THEN <<pairs[1].value>> ELSE <<>>)
       \o ValuesOf(Tail(pairs), name)

UrlPath(url) == SubSeq(url, 1, FirstIndex(url, "?") - 1)

UrlQuery(url) == SubSeq(url, FirstIndex(url, "?") + 1, Len(url))

RequestValues(request, name) == ValuesOf(ParseQuery(UrlQuery(request.url)), name)

Success(status) == status >= 200 /\ status <= 299

----------------------------------------------------------------------------
(* Bounds and input sets *)

MaxHits == 2

MaxTags == 3

MaxCalls == 2

SeqsUpTo(S, n) == UNION {[1..k -> S] : k \in 0..n}

\* A query that tries to smuggle parameters into the query string.
InjectQuery ==
  <<"x", "&", "hitsPerPage", "=", "500", "&", "sortByDate", "=", "1", "&",
    "restrictSearchableAttributes", "=", "url">>

QueryInputs == {Undefined, Some(<<>>), Some(InjectQuery)}

TagsInputs ==
  {Undefined, Some(<<>>),
   Some(<<OrTags_from(<<STORY, COMMENT>>), PlainTag(createAuthorTag(<<"pg">>))>>)}

\* The elements of a tags list: plain tags, and OrTags groups of two, one and
\* no member.
TagElements ==
  {PlainTag(STORY), PlainTag(createAuthorTag(<<"pg">>)),
   OrTags_from(<<STORY, COMMENT>>), OrTags_from(<<STORY>>), OrTags_from(<<>>)}

TagsParams ==
  {[NoParams EXCEPT !.tags = Some(l)] : l \in SeqsUpTo(TagElements, MaxTags)}

NumericFiltersInputs ==
  {Undefined, Some(<< <<"points", ">", "=", "100">>, <<"num_comments", "<", "5">> >>)}

OptionalWordsInputs == {Undefined, Some(<< <<"go">>, <<"rust">> >>)}

PageInputs == {Undefined, Some(0), Some(2)}

FiltersInputs == {Undefined, Some(<<>>), Some(<<"points", ">", "1">>)}

HitsPerPageInputs ==
  {Undefined} \cup {Some(n) : n \in {-5, -1, 0, 1, 50, 100, 101, 500}}

\* Parameters around every presence check of buildSearchParams: absent,
\* empty and non-empty values, page 0, and a list of one empty word.
PresenceParams ==
  {[NoParams EXCEPT !.query = q, !.tags = t, !.numericFilters = n,
                    !.optionalWords = w, !.page = pg, !.filters = f] :
     q \in {Undefined, Some(<<>>), Some(<<"rust">>)},
     t \in TagsInputs,
     n \in NumericFiltersInputs \cup {Some(<<>>)},
     w \in OptionalWordsInputs \cup {Some(<<>>), Some(<< <<>> >>), Some(<< <<>>, <<>> >>)},
     pg \in PageInputs,
     f \in FiltersInputs}

RestrictInputs == {Undefined, Some(<<>>), Some(<< <<"title">>, <<"url">> >>)}

SortByDateInputs == {Undefined, Some(TRUE), Some(FALSE)}

ParamsAll ==
  {[query |-> q, tags |-> t, numericFilters |-> n, optionalWords |-> w,
    page |-> p, filters |-> f, hitsPerPage |-> h,
    restrictSearchableAttributes |-> r, sortByDate |-> s] :
     q \in QueryInputs, t \in TagsInputs, n \in NumericFiltersInputs,
     w \in OptionalWordsInputs, p \in PageInputs, f \in FiltersInputs,
     h \in HitsPerPageInputs, r \in RestrictInputs, s \in SortByDateInputs}

\* The parameters the client specification calls search with.
ParamsSmall ==
  {[NoParams EXCEPT !.query = q, !.hitsPerPage = h, !.sortByDate = s] :
     q \in {Undefined, Some(<<"rust">>)}, h \in {Undefined, Some(5)},
     s \in SortByDateInputs}

\* whoIsHiring takes Omit<SearchParams, "tags" | "sortByDate" | "filters">.
WhoIsHiringParams ==
  {[NoParams EXCEPT !.query = q, !.hitsPerPage = h] :
     q \in {Undefined, Some(<<"rust">>)}, h \in {Undefined, Some(5)}}

\* frontPage takes Omit<SearchParams, "tags" | "sortByDate" | "hitsPerPage">;
\* an untyped caller can still pass tags.
FrontPageParams ==
  {[NoParams EXCEPT !.query = q, !.numericFilters = n, !.tags = t] :
     q \in {Undefined, Some(<<"rust">>)},
     n \in {Undefined,
            Some(<< <<"points", ">", "=", "100">>, <<"num_comments", "<", "5">> >>)},
     t \in {Undefined, Some(<<PlainTag(COMMENT)>>)}}

PlainMethods == {"newest", "comments", "askHN", "showHN", "polls", "jobs"}

UserMethods == {"userAll", "userThreads", "userSubmitted"}

UserNameInputs == {<<"pg">>, <<"a", "&", "tags", "=", "job">>}

StoryIdInputs == {7, 8863}

\* The params of commentsToStory: search parameters and an optional userName.
CommentsToStoryParams ==
  {[f \in DOMAIN p \cup {"userName"} |-> IF f = "userName" THEN u ELSE p[f]] :
     p \in FrontPageParams,
     u \in {Undefined, Some(<<>>)} \cup {Some(n) : n \in UserNameInputs}}

\* Date.now() at the call, in milliseconds.
NowInputs == {604800999, 604801000, 1000000500}

InitInputs ==
  {NoInit,
   [headers |-> Some(PlainHeaders({<<"User-Agent", <<"curl">> >>,
                                   <<"Accept", <<"json">> >>})),
    signal |-> Some("abort-signal")]}

\* Request options over every kind of headers value: none, a plain object
\* (empty, with other headers, with a User-Agent in either case), a Headers
\* instance and an array of pairs.
HeadersInputs ==
  {Undefined,
   Some(PlainHeaders({})),
   Some(PlainHeaders({<<"Accept", <<"json">> >>})),
   Some(PlainHeaders({<<"User-Agent", <<"curl">> >>})),
   Some(PlainHeaders({<<"user-agent", <<"curl">> >>})),
   Some(HeadersInstance({<<"accept", <<"json">> >>})),
   Some(HeadersInstance({<<"user-agent", <<"curl">> >>})),
   Some(HeadersArray({<<"Accept", <<"json">> >>}))}

InitHeadersInputs ==
  {[headers |-> h, signal |-> g] : h \in HeadersInputs,
                                   g \in {Undefined, Some("abort-signal")}}

\* The paths the public methods of HNAPI pass to _fetch.
HNAPIPaths ==
  {<<"/maxitem.json">>, <<"/topstories.json">>, <<"/updates.json">>,
   <<"/user/", "pg", ".json">>, <<"/item/", "8863", ".json">>}

ClientOptions ==
  {[baseUrl |-> Undefined, debug |-> Undefined, objDebug |-> Undefined],
   [baseUrl |-> Some(<<"http://localhost:8080">>), debug |-> Some(TRUE),
    objDebug |-> Some(TRUE)]}

Highlight(field, matchLevel, value) ==
  [field |-> field, matchLevel |-> matchLevel, value |-> value]

TitleHighlight == {Highlight("title", "full", <<"<em>", "rust", "</em>">>)}

RawHit(tags, highlights, objectID, story_id) ==
  [_tags |-> tags, _highlightResult |-> highlights,
   data |-> [objectID |-> objectID, story_id |-> story_id,
             created_at |-> <<"2024-01-15T10:00:00.000Z">>,
             parent_id |-> Undefined, url |-> Undefined,
             job_text |-> Undefined]]

HitsSmall ==
  {RawHit(<<STORY, createAuthorTag(<<"whoishiring">>), createStoryTag(7)>>,
          TitleHighlight, <<"7">>, 7),
   RawHit(<<COMMENT, createAuthorTag(<<"pg">>), createStoryTag(8)>>,
          {Highlight("comment_text", "none", <<"text">>)}, <<"9">>, 8),
   RawHit(<<JOB, createAuthorTag(<<"pg">>)>>, {}, <<"11">>, 11)}

TypeTokens == <<JOB, POLLOPT, POLL, COMMENT, STORY>>

\* The tokens of S as a tag list, lowest priority first, after front_page.
RECURSIVE TagList(_, _)
TagList(S, i) ==
  IF i > Len(TypeTokens) THEN <<>>
  ELSE (IF TypeTokens[i] \in S THEN <<TypeTokens[i]>> ELSE <<>>)
       \o TagList(S, i + 1)

TagLists ==
  {<<>>} \cup {<<FRONT_PAGE>> \o TagList(S, 1) :
                 S \in SUBSET {STORY, COMMENT, POLL, POLLOPT, JOB}}

HighlightMaps ==
  {t \cup u :
     t \in {{}} \cup {{Highlight("title", l, <<"<em>", "rust", "</em>">>)} :
                        l \in {"none", "full", "partial"}},
     u \in {{}} \cup {{Highlight("url", l, <<"example.com">>)} :
                        l \in {"none", "full"}}}

HitsAll ==
  {RawHit(t, TitleHighlight, <<"101">>, 7) : t \in TagLists}
  \cup {RawHit(<<COMMENT, createStoryTag(7)>>, h, <<"102">>, 7) :
          h \in HighlightMaps}

CreatedAtInputs ==
  {<<"2024-01-15T10:00:00.000Z">>, <<"2024-01-15">>, <<>>, <<"not-a-date">>}

UrlInputs == {Undefined, Some(<<>>), Some(<<"https://example.com/a">>)}

ParentIdInputs == {Undefined, Some(7), Some(8)}

JobTextInputs == {Undefined, Some(<<"We", " ", "are", " ", "hiring">>)}

JobUrlInputs == {Undefined, Some(<<"https://example.com/jobs">>)}

\* Stories over every created_at and url, comments over every parent_id, jobs
\* over every url and job_text.
HitsObjects ==
  {[RawHit(<<STORY, createAuthorTag(<<"pg">>), createStoryTag(7)>>, {}, <<"7">>, 7)
      EXCEPT !.data.created_at = c, !.data.url = u] :
     c \in CreatedAtInputs, u \in UrlInputs}
  \cup {[RawHit(<<COMMENT, createAuthorTag(<<"pg">>), createStoryTag(7)>>, {},
                <<"9">>, 7)
           EXCEPT !.data.parent_id = q] : q \in ParentIdInputs}
  \cup {[RawHit(<<JOB, createAuthorTag(<<"pg">>)>>, {}, <<"11">>, 11)
           EXCEPT !.data.url = u, !.data.job_text = t] :
          u \in JobUrlInputs, t \in JobTextInputs}

Envelope(hits) ==
  [valid |-> TRUE, hits |-> Some(hits), hitsPerPage |-> 20,
   nbHits |-> 40 + Len(hits), nbPages |-> 3, page |-> 1,
   processingTimeMS |-> 5, serverTimeMS |-> 6]

\* A body that is not JSON, and a JSON object without a hits array.
InvalidJson == [Envelope(<<>>) EXCEPT !.valid = FALSE]

NoHitsBody == [Envelope(<<>>) EXCEPT !.hits = Undefined]

StatusText(status) ==
  CASE status = 200 -> "OK"
    [] status = 404 -> "Not Found"
    [] status = 500 -> "Internal Server Error"
    [] OTHER -> ""

HttpResponse(status, body) ==
  [status |-> status, statusText |-> StatusText(status), body |-> body]

FailureResponses == {HttpResponse(s, InvalidJson) : s \in {404, 500}}

Responses ==
  {HttpResponse(200, Envelope(h)) : h \in SeqsUpTo(HitsSmall, MaxHits)}
  \cup {HttpResponse(200, InvalidJson), HttpResponse(200, NoHitsBody)}
  \cup FailureResponses

ResponsesQuery == {HttpResponse(200, Envelope(<<>>))} \cup FailureResponses

ResponsesNormalize ==
  {HttpResponse(200, Envelope(h)) : h \in SeqsUpTo(HitsAll, MaxHits)}

ResponsesObjects ==
  {HttpResponse(200, Envelope(h)) : h \in SeqsUpTo(HitsObjects, MaxHits)}

\* The calls made at once: two searches told apart by their query.
ConcurrentParams ==
  {[NoParams EXCEPT !.query = Some(<<q>>)] : q \in {"rust", "go"}}

\* What the server answers to a request: one story whose objectID is the
\* query of the request, or a failure.
ResponsesFor(url) ==
  {HttpResponse(200,
     Envelope(<<RawHit(<<STORY>>, {}, ValuesOf(ParseQuery(UrlQuery(url)), "query")[1], 7)>>)),
   HttpResponse(500, InvalidJson)}

RejectReasons == {"TypeError", "AbortError"}

----------------------------------------------------------------------------
(* The state machine *)

IdleCall == [pc |-> "idle"]

NoCalls == [k \in 1..MaxCalls |-> IdleCall]

Idle ==
  /\ op = "none"
  /\ pc = "idle"
  /\ step = 0
  /\ args = [params |-> NoParams, init |-> NoInit]
  /\ init = NoInit
  /\ requests = <<>>
  /\ response = Undefined
  /\ firstRes = Undefined
  /\ result = Undefined
  /\ error = Undefined
  /\ view = Undefined

Init ==
  /\ client \in {NewHNSearchClient(o) : o \in ClientOptions}
  /\ calls = NoCalls
  /\ Idle

\* The request search hands to fetch: the URL and the options object, whose
\* headers search has overwritten with the User-Agent.
fetchRequest(params, i) ==
  [url |-> searchUrl(client.baseUrl, params), init |-> withUserAgent(i)]

\* search(params, i): everything up to the first await.
CallSearch(params, i) ==
  /\ pc = "idle"
  /\ op' = "search"
  /\ step' = 1
  /\ args' = [params |-> params, init |-> i]
  /\ init' = withUserAgent(i)
  /\ requests' = <<fetchRequest(params, i)>>
  /\ pc' = "fetching"
  /\ UNCHANGED <<client, calls, view, response, firstRes, result, error>>

\* The facade methods that are one search call.
DirectOps ==
  {"search", "frontPage", "commentsToStory", "newest", "comments", "askHN",
   "showHN", "polls", "jobs", "userAll", "userThreads", "userSubmitted"}

\* frontPage(params, i) at time now: the search it starts, up to the first
\* await.
CallFrontPage(params, i, now) ==
  /\ pc = "idle"
  /\ op' = "frontPage"
  /\ step' = 1
  /\ args' = [params |-> params, init |-> i, now |-> now]
  /\ init' = withUserAgent(i)
  /\ requests' = <<fetchRequest(frontPageParams(params, now), i)>>
  /\ pc' = "fetching"
  /\ UNCHANGED <<client, calls, view, response, firstRes, result, error>>

\* A facade method with fixed tags, up to the first await of its search.
CallFacade(method, userName, params, i) ==
  /\ pc = "idle"
  /\ op' = method
  /\ step' = 1
  /\ args' = [params |-> params, init |-> i, userName |-> userName]
  /\ init' = withUserAgent(i)
  /\ requests' = <<fetchRequest(facadeParams(method, userName, params), i)>>
  /\ pc' = "fetching"
  /\ UNCHANGED <<client, calls, view, response, firstRes, result, error>>

\* commentsToStory(storyId, params, i), up to the first await of its search.
CallCommentsToStory(storyId, params, i) ==
  /\ pc = "idle"
  /\ op' = "commentsToStory"
  /\ step' = 1
  /\ args' = [params |-> params, init |-> i, storyId |-> storyId]
  /\ init' = withUserAgent(i)
  /\ requests' = <<fetchRequest(commentsToStoryParams(storyId, params), i)>>
  /\ pc' = "fetching"
  /\ UNCHANGED <<client, calls, view, response, firstRes, result, error>>

\* whoIsHiring(params, i): the first search, up to its first await.
CallWhoIsHiring(params, i) ==
  /\ pc = "idle"
  /\ op' = "whoIsHiring"
  /\ step' = 1
  /\ args' = [params |-> params, init |-> i]
  /\ init' = i
  /\ requests' = <<fetchRequest(whoIsHiringStoryParams, NoInit)>>
  /\ pc' = "fetching"
  /\ UNCHANGED <<client, calls, view, response, firstRes, result, error>>

\* A public method of HNAPI: _fetch(path) with its default init, an empty
\* object, up to the await of fetch.
CallHNAPI(path) ==
  /\ pc = "idle"
  /\ op' = "HNAPI"
  /\ step' = 1
  /\ args' = [params |-> NoParams, init |-> NoInit, path |-> path]
  /\ init' = withUserAgent(NoInit)
  /\ requests' = <<[url |-> URL(path, HNAPI_baseUrl), init |-> withUserAgent(NoInit)]>>
  /\ pc' = "fetching"
  /\ UNCHANGED <<client, calls, view, response, firstRes, result, error>>

\* _fetch returns response.json(): the parsed body, whatever JSON it is.
HNAPIReturn ==
  /\ pc = "parsing"
  /\ op = "HNAPI"
  /\ IF Val(response).body.valid
     THEN pc' = "returned" /\ result' = Some(Val(response).body) /\ UNCHANGED error
     ELSE /\ pc' = "failed"
          /\ error' = Some([name |-> "SyntaxError", message |-> <<"Unexpected token">>])
          /\ UNCHANGED result
  /\ UNCHANGED <<client, calls, view, op, step, args, init, requests, response,
                 firstRes>>

\* Mutant: a failed request is issued again, up to three times.
FetchResolve_retry(resp) ==
  /\ pc = "fetching"
  /\ response' = Some(resp)
  /\ IF responseOk(resp.status)
     THEN pc' = "parsing" /\ UNCHANGED <<error, requests>>
     ELSE IF Len(requests) < 3
          THEN /\ pc' = "fetching"
               /\ requests' = Append(requests, requests[Len(requests)])
               /\ UNCHANGED error
          ELSE /\ pc' = "failed"
               /\ error' = Some(HttpError(resp.status))
               /\ UNCHANGED requests
  /\ UNCHANGED <<client, calls, view, op, step, args, init, firstRes, result>>

\* Mutant: when the second request of whoIsHiring fails, the first response
\* is returned.
FetchResolve_swallow(resp) ==
  /\ pc = "fetching"
  /\ response' = Some(resp)
  /\ IF responseOk(resp.status)
     THEN pc' = "parsing" /\ UNCHANGED <<error, result>>
     ELSE IF op = "whoIsHiring" /\ step = 2
          THEN pc' = "returned" /\ result' = firstRes /\ UNCHANGED error
          ELSE /\ pc' = "failed"
               /\ error' = Some(HttpError(resp.status))
               /\ UNCHANGED result
  /\ UNCHANGED <<client, calls, view, op, step, args, init, requests, firstRes>>

\* fetch resolves with a response: search checks response.ok.
FetchResolve(resp) ==
  /\ pc = "fetching"
  /\ response' = Some(resp)
  /\ IF responseOk(resp.status)
     THEN pc' = "parsing" /\ UNCHANGED error
     ELSE pc' = "failed" /\ error' = Some(HttpError(resp.status))
  /\ UNCHANGED <<client, calls, view, op, step, args, init, requests, firstRes, result>>

\* fetch rejects (network failure, abort): the rejection propagates.
FetchReject(reason) ==
  /\ pc = "fetching"
  /\ pc' = "failed"
  /\ error' = Some([name |-> reason, message |-> <<"fetch failed">>])
  /\ UNCHANGED <<client, calls, view, op, step, args, init, requests, response, firstRes,
                 result>>

bodyIsEnvelope(body) == body.valid /\ IsDefined(body.hits)

\* response.json() rejects, or res.hits.map throws on a missing hits array.
JsonReject ==
  /\ pc = "parsing"
  /\ op # "HNAPI"
  /\ ~bodyIsEnvelope(Val(response).body)
  /\ pc' = "failed"
  /\ error' = Some(IF Val(response).body.valid
                   THEN [name |-> "TypeError", message |-> <<"res.hits is undefined">>]
                   ELSE [name |-> "SyntaxError", message |-> <<"Unexpected token">>])
  /\ UNCHANGED <<client, calls, view, op, step, args, init, requests, response, firstRes,
                 result>>

\* search returns; a direct search call and the second search of
\* whoIsHiring both hand the value to the caller.
SearchReturn ==
  /\ pc = "parsing"
  /\ bodyIsEnvelope(Val(response).body)
  /\ op \in DirectOps \/ step = 2
  /\ result' = Some(searchResponse(Val(response).body, client.objDebug))
  /\ pc' = "returned"
  /\ UNCHANGED <<client, calls, view, op, step, args, init, requests, response, firstRes,
                 error>>

\* Mutant: without the early return, reading the missing story throws.
LookupEmpty_throws ==
  /\ pc = "parsing"
  /\ bodyIsEnvelope(Val(response).body)
  /\ op = "whoIsHiring" /\ step = 1
  /\ LET res == searchResponse(Val(response).body, client.objDebug)
     IN  /\ Len(res.data) = 0
         /\ firstRes' = Some(res)
  /\ error' = Some([name |-> "TypeError", message |-> <<"story is undefined">>])
  /\ pc' = "failed"
  /\ UNCHANGED <<client, calls, view, op, step, args, init, requests, response, result>>

\* whoIsHiring: the first search returned no story.
LookupEmpty ==
  /\ pc = "parsing"
  /\ bodyIsEnvelope(Val(response).body)
  /\ op = "whoIsHiring" /\ step = 1
  /\ LET res == searchResponse(Val(response).body, client.objDebug)
     IN  /\ Len(res.data) = 0
         /\ firstRes' = Some(res)
         /\ result' = Some(res)
  /\ pc' = "returned"
  /\ UNCHANGED <<client, calls, view, op, step, args, init, requests, response, error>>

\* whoIsHiring: the first search returned a story; the second search starts.
LookupFound ==
  /\ pc = "parsing"
  /\ bodyIsEnvelope(Val(response).body)
  /\ op = "whoIsHiring" /\ step = 1
  /\ LET res == searchResponse(Val(response).body, client.objDebug)
     IN  /\ Len(res.data) > 0
         /\ firstRes' = Some(res)
         /\ requests' = Append(requests,
              fetchRequest(whoIsHiringCommentParams(args.params, res.data[1]), init))
  /\ init' = withUserAgent(init)
  /\ step' = 2
  /\ response' = Undefined
  /\ pc' = "fetching"
  /\ UNCHANGED <<client, calls, view, op, args, result, error>>

\* The caller reads the getters of the i-th object of the returned response.
Inspect(i) ==
  /\ pc = "returned"
  /\ op \in DirectOps \cup {"whoIsHiring"}
  /\ i \in 1..Len(Val(result).data)
  /\ view' = Some([index |-> i, value |-> accessors(Val(result).data[i])])
  /\ UNCHANGED <<client, calls, op, pc, step, args, init, requests, response,
                 firstRes, result, error>>

\* Call k of several on the one client: search(params, i) up to the await of
\* fetch.  The caller passes either an options object of its own for this
\* call or the one object it shares between its calls (the variable init),
\* which search writes to.
ConcurrentCallSearch(k, params, shared) ==
  /\ calls[k].pc = "idle"
  /\ calls' = [calls EXCEPT ![k] =
       [pc |-> "fetching", params |-> params,
        request |-> fetchRequest(params, IF shared THEN init ELSE NoInit),
        response |-> Undefined, result |-> Undefined, error |-> Undefined]]
  /\ init' = IF shared THEN withUserAgent(init) ELSE init
  /\ UNCHANGED <<client, view, op, pc, step, args, requests, response, firstRes,
                 result, error>>

\* Mutant: the client keeps one slot for the pending call, so a response is
\* handed to the pending call of the highest number, whichever request it
\* answers.
ConcurrentFetchResolve_oneSlot(k, resp) ==
  /\ calls[k].pc = "fetching"
  /\ resp \in ResponsesFor(calls[k].request.url)
  /\ LET j == CHOOSE n \in 1..MaxCalls :
                /\ calls[n].pc = "fetching"
                /\ \A m \in 1..MaxCalls : calls[m].pc = "fetching" => m <= n
     IN  calls' = [calls EXCEPT ![j] =
           [@ EXCEPT !.response = Some(resp),
                     !.pc = IF responseOk(resp.status) THEN "parsing" ELSE "failed",
                     !.error = IF responseOk(resp.status) THEN Undefined
                               ELSE Some(HttpError(resp.status))]]
  /\ UNCHANGED <<client, view, op, pc, step, args, init, requests, response,
                 firstRes, result, error>>

\* The fetch of call k resolves with the server's answer to its request.
ConcurrentFetchResolve(k, resp) ==
  /\ calls[k].pc = "fetching"
  /\ resp \in ResponsesFor(calls[k].request.url)
  /\ calls' = [calls EXCEPT ![k] =
       [@ EXCEPT !.response = Some(resp),
                 !.pc = IF responseOk(resp.status) THEN "parsing" ELSE "failed",
                 !.error = IF responseOk(resp.status) THEN Undefined
                           ELSE Some(HttpError(resp.status))]]
  /\ UNCHANGED <<client, view, op, pc, step, args, init, requests, response,
                 firstRes, result, error>>

\* Call k parses its body and returns.
ConcurrentSearchReturn(k) ==
  /\ calls[k].pc = "parsing"
  /\ calls' = [calls EXCEPT ![k] =
       [@ EXCEPT !.result = Some(searchResponse(Val(calls[k].response).body,
                                               client.objDebug)),
                 !.pc = "returned"]]
  /\ UNCHANGED <<client, view, op, pc, step, args, init, requests, response,
                 firstRes, result, error>>

\* The caller has taken the settled promise of call k.
ConcurrentSettle(k) ==
  /\ calls[k].pc \in {"returned", "failed"}
  /\ calls' = [calls EXCEPT ![k] = IdleCall]
  /\ UNCHANGED <<client, view, op, pc, step, args, init, requests, response,
                 firstRes, result, error>>

\* The caller has taken the settled promise; the client is ready for the
\* next call.
Settle ==
  /\ pc \in {"returned", "failed"}
  /\ op' = "none"
  /\ pc' = "idle"
  /\ step' = 0
  /\ args' = [params |-> NoParams, init |-> NoInit]
  /\ init' = NoInit
  /\ requests' = <<>>
  /\ response' = Undefined
  /\ firstRes' = Undefined
  /\ result' = Undefined
  /\ error' = Undefined
  /\ view' = Undefined
  /\ UNCHANGED <<client, calls>>

\* buildSearchParams applied on its own.
Build(params) ==
  /\ pc = "idle"
  /\ op' = "buildSearchParams"
  /\ args' = [params |-> params, init |-> NoInit]
  /\ result' = Some(buildSearchParams(params))
  /\ pc' = "returned"
  /\ UNCHANGED <<client, calls, view, step, init, requests, response, firstRes, error>>

\* The quantifiers over the inputs are evaluated only in the states where
\* the action is enabled.
Next ==
  \/ pc = "idle" /\ \E p \in ParamsSmall, i \in InitInputs : CallSearch(p, i)
  \/ pc = "idle" /\ \E p \in WhoIsHiringParams, i \in InitInputs :
                      CallWhoIsHiring(p, i)
  \/ pc = "fetching" /\ \E r \in Responses : FetchResolve(r)
  \/ pc = "fetching" /\ \E e \in RejectReasons : FetchReject(e)
  \/ JsonReject
  \/ SearchReturn
  \/ LookupEmpty
  \/ LookupFound
  \/ Settle

Spec == Init /\ [][Next]_vars

\* search over every combination of parameters.
NextQuery ==
  \/ pc = "idle" /\ \E p \in ParamsAll : CallSearch(p, NoInit)
  \/ pc = "fetching" /\ \E r \in ResponsesQuery : FetchResolve(r)
  \/ SearchReturn
  \/ Settle

SpecQuery == Init /\ [][NextQuery]_vars

\* search over every kind of raw hit.
NextNormalize ==
  \/ CallSearch(NoParams, NoInit)
  \/ pc = "fetching" /\ \E r \in ResponsesNormalize : FetchResolve(r)
  \/ SearchReturn
  \/ Settle

SpecNormalize == Init /\ [][NextNormalize]_vars

\* buildSearchParams over every combination of parameters.
NextBuild ==
  \/ pc = "idle" /\ \E p \in ParamsAll : Build(p)
  \/ Settle

SpecBuild == Init /\ [][NextBuild]_vars

\* buildSearchParams around its presence checks.
NextBuildPresence ==
  \/ pc = "idle" /\ \E p \in PresenceParams : Build(p)
  \/ Settle

SpecBuildPresence == Init /\ [][NextBuildPresence]_vars

\* The facade methods that prefill the params of one search.
NextFacade ==
  \/ pc = "idle" /\ \E p \in FrontPageParams, i \in InitInputs, t \in NowInputs :
                      CallFrontPage(p, i, t)
  \/ pc = "idle" /\ \E m \in PlainMethods, p \in FrontPageParams, i \in InitInputs :
                      CallFacade(m, <<>>, p, i)
  \/ pc = "idle" /\ \E m \in UserMethods, u \in UserNameInputs,
                         p \in FrontPageParams, i \in InitInputs :
                      CallFacade(m, u, p, i)
  \/ pc = "idle" /\ \E id \in StoryIdInputs, p \in CommentsToStoryParams,
                         i \in InitInputs :
                      CallCommentsToStory(id, p, i)
  \/ pc = "fetching" /\ \E r \in ResponsesQuery : FetchResolve(r)
  \/ SearchReturn
  \/ Settle

SpecFacade == Init /\ [][NextFacade]_vars

\* search, and the caller reading the getters of the objects it returned.
NextObjects ==
  \/ CallSearch(NoParams, NoInit)
  \/ pc = "fetching" /\ \E r \in ResponsesObjects : FetchResolve(r)
  \/ SearchReturn
  \/ pc = "returned" /\ \E i \in 1..MaxHits : Inspect(i)
  \/ Settle

SpecObjects == Init /\ [][NextObjects]_vars

\* buildSearchParams and search over every tags list.
NextTags ==
  \/ pc = "idle" /\ \E p \in TagsParams : Build(p)
  \/ pc = "idle" /\ \E p \in TagsParams : CallSearch(p, NoInit)
  \/ pc = "fetching" /\ \E r \in ResponsesQuery : FetchResolve(r)
  \/ SearchReturn
  \/ Settle

SpecTags == Init /\ [][NextTags]_vars

\* search over every kind of request options, and the item API.
NextHeaders ==
  \/ pc = "idle" /\ \E i \in InitHeadersInputs : CallSearch(NoParams, i)
  \/ pc = "idle" /\ \E path \in HNAPIPaths : CallHNAPI(path)
  \/ pc = "fetching" /\ \E r \in ResponsesQuery \cup {HttpResponse(200, InvalidJson)} :
                          FetchResolve(r)
  \/ JsonReject
  \/ SearchReturn
  \/ HNAPIReturn
  \/ Settle

SpecHeaders == Init /\ [][NextHeaders]_vars

\* Several search calls in flight on one client, in every interleaving.
NextConcurrent ==
  \/ \E k \in 1..MaxCalls, p \in ConcurrentParams, shared \in BOOLEAN :
       ConcurrentCallSearch(k, p, shared)
  \/ \E k \in 1..MaxCalls :
       calls[k].pc = "fetching"
         /\ \E r \in ResponsesFor(calls[k].request.url) : ConcurrentFetchResolve(k, r)
  \/ \E k \in 1..MaxCalls : ConcurrentSearchReturn(k)
  \/ \E k \in 1..MaxCalls : ConcurrentSettle(k)

SpecConcurrent == Init /\ [][NextConcurrent]_vars

----------------------------------------------------------------------------
(* Claims *)

ClaimedHitsPerPage(h) ==
  IF ~IsDefined(h) THEN 100
  ELSE IF Val(h) < 1 THEN 1
  ELSE IF Val(h) > 100 THEN 100
  ELSE Val(h)

\* C1: for every hitsPerPage input of search (absent or any integer), the
\* request URL carries one hitsPerPage parameter with a value in [1,100]:
\* 100 when absent, 1 when below 1, 100 when above 100, the input otherwise.
C1_HitsPerPageClamped ==
  (op = "search" /\ Len(requests) >= 1) =>
    LET v == RequestValues(requests[1], "hitsPerPage")
    IN  /\ Len(v) = 1
        /\ v[1] = NumberToString(ClaimedHitsPerPage(args.params.hitsPerPage))
        /\ \E k \in 1..100 : v[1] = NumberToString(k)

\* C2: the query string buildSearchParams produces carries the key
\* restrictSearchableAttributes exactly once; its value is the comma-join of
\* the supplied list when that list is present and non-empty, and "title"
\* when the list is omitted or empty.
C2_RestrictAlwaysOnce ==
  (op = "buildSearchParams" /\ pc = "returned") =>
    LET v == ValuesOf(ParseQuery(Val(result)), "restrictSearchableAttributes")
        r == args.params.restrictSearchableAttributes
    IN  /\ Len(v) = 1
        /\ v[1] = IF IsDefined(r) /\ Val(r) # <<>>
                  THEN Join(Val(r), <<",">>)
                  ELSE <<"title">>

C2_Witness ==
  /\ op = "buildSearchParams" /\ pc = "returned"
  /\ args.params.restrictSearchableAttributes = Some(<<>>)
  /\ args.params.query = Some(InjectQuery)
  /\ ValuesOf(ParseQuery(Val(result)), "restrictSearchableAttributes")
       = << <<"title">> >>

Priority == <<STORY, COMMENT, POLL, POLLOPT, JOB>>

Carries(tags, token) == \E n \in DOMAIN tags : tags[n] = token

RawHits == Val(Val(response).body.hits)

SearchReturned == op = "search" /\ pc = "returned"

\* C3: search classifies a hit by the first of story, comment, poll, pollopt,
\* job that its _tags contain, and as "hit" exactly when they contain none.
C3_ClassifyByPriority ==
  SearchReturned =>
    \A i \in 1..Len(RawHits) :
      LET type == Val(result).data[i].type
          tags == RawHits[i]._tags
      IN  /\ (type = "hit") <=> (\A k \in 1..5 : ~Carries(tags, Priority[k]))
          /\ \A k \in 1..5 :
               (type = Priority[k][1]) <=>
                 (/\ Carries(tags, Priority[k])
                  /\ \A j \in 1..(k - 1) : ~Carries(tags, Priority[j]))

C3_Witness ==
  /\ SearchReturned
  /\ \E i \in 1..Len(RawHits) :
       /\ Carries(RawHits[i]._tags, STORY)
       /\ Carries(RawHits[i]._tags, COMMENT)
       /\ RawHits[i]._tags[1] = FRONT_PAGE
       /\ Val(result).data[i].type = "story"

\* C4: the data a successful search returns has the length of the upstream
\* hits array and its i-th element is the normalization of the i-th raw hit.
C4_OrderPreserved ==
  SearchReturned =>
    /\ Len(Val(result).data) = Len(RawHits)
    /\ \A i \in 1..Len(RawHits) :
         /\ Val(result).data[i].tags = RawHits[i]._tags
         /\ Val(result).data[i].data = RawHits[i].data
         /\ Val(result).data[i] = normalize(RawHits[i], client.objDebug)

C4_Witness ==
  /\ SearchReturned
  /\ Len(RawHits) = 2
  /\ RawHits[1]._tags # RawHits[2]._tags
  /\ RawHits[1].data # RawHits[2].data
  /\ Val(result).data[2].tags = RawHits[2]._tags

\* C5: the highlight map of a normalized object holds exactly the entries of
\* the raw _highlightResult whose matchLevel is not "none", unchanged.
C5_HighlightFiltered ==
  SearchReturned =>
    \A i \in 1..Len(RawHits) :
      LET raw == RawHits[i]._highlightResult
          kept == Val(result).data[i].highlight
      IN  /\ kept \subseteq raw
          /\ \A e \in raw : (e \in kept) <=> (e.matchLevel # "none")

C5_Witness ==
  /\ SearchReturned
  /\ \E i \in 1..Len(RawHits) :
       /\ \E e \in RawHits[i]._highlightResult :
            e.field = "url" /\ e.matchLevel = "none"
       /\ \E e \in Val(result).data[i].highlight :
            e.field = "title" /\ e.matchLevel = "partial"
       /\ Cardinality(Val(result).data[i].highlight) = 1

\* C6: search sends its request to <baseUrl>/search_by_date when sortByDate
\* is true or absent and to <baseUrl>/search when it is false, and the query
\* string never carries a sortByDate parameter.
C6_EndpointBySortByDate ==
  (op = "search" /\ Len(requests) >= 1) =>
    LET s == args.params.sortByDate
    IN  /\ UrlPath(requests[1].url) =
             client.baseUrl \o
               <<"/", IF s = Some(FALSE) THEN "search" ELSE "search_by_date">>
        /\ RequestValues(requests[1], "sortByDate") = <<>>

C6_Witness ==
  /\ op = "search" /\ pc = "fetching"
  /\ args.params.sortByDate = Some(FALSE)
  /\ args.params.query = Some(InjectQuery)
  /\ UrlPath(requests[1].url) = <<"http://localhost:8080", "/", "search">>

Ended == pc \in {"returned", "failed"}

\* C7 as stated: a search call issues exactly one GET; on a non-success
\* status it fails without a further request and without a response object;
\* on a success status it ends by returning a response.
C7_OneGetSuccessReturns ==
  op = "search" =>
    /\ Len(requests) = 1
    /\ (IsDefined(response) /\ ~Success(Val(response).status)) =>
         (pc = "failed" /\ ~IsDefined(result))
    /\ (IsDefined(response) /\ Success(Val(response).status) /\ Ended) =>
         (pc = "returned" /\ IsDefined(result))

\* C7 (amended): a search call issues exactly one GET; on a non-success status
\* it fails without a further request and without a response object; on a
\* success status it ends by returning a response when the body is a JSON
\* envelope with a hits array, and ends in failure, still after one GET and
\* without a response object, when the body is not.
C7_OneGetNoRetry ==
  op = "search" =>
    /\ Len(requests) = 1
    /\ (IsDefined(response) /\ ~Success(Val(response).status)) =>
         (pc = "failed" /\ ~IsDefined(result) /\ IsDefined(error))
    /\ (IsDefined(response) /\ Success(Val(response).status) /\ Ended) =>
         IF Val(response).body.valid /\ IsDefined(Val(response).body.hits)
         THEN pc = "returned" /\ IsDefined(result) /\ ~IsDefined(error)
         ELSE pc = "failed" /\ ~IsDefined(result) /\ IsDefined(error)

C7_Witness ==
  /\ op = "search" /\ pc = "failed"
  /\ IsDefined(response) /\ Val(response).status = 500
  /\ Len(requests) = 1
  /\ error = Some(HttpError(500))

\* C8: when the first lookup of whoIsHiring returns zero hits, whoIsHiring
\* completes without issuing the second request and returns the first
\* lookup's response (its meta and its empty data), not an error.
C8_EmptyLookupShortCircuits ==
  (op = "whoIsHiring" /\ IsDefined(firstRes) /\ Len(Val(firstRes).data) = 0) =>
    /\ Len(requests) = 1
    /\ pc = "returned"
    /\ ~IsDefined(error)
    /\ result = firstRes
    /\ Val(result).data = <<>>
    /\ Val(result).meta.numberOfHits = Val(response).body.nbHits
    /\ Val(result).meta.hitsPerPage = Val(response).body.hitsPerPage

C8_Witness ==
  /\ op = "whoIsHiring" /\ pc = "returned" /\ step = 1
  /\ Val(response).body.hits = Some(<<>>)
  /\ Val(result).data = <<>>
  /\ Len(requests) = 1

\* C9: the first lookup of whoIsHiring asks for tags story,author_whoishiring
\* with hitsPerPage 1, sorted by date; when it returns a hit, the second
\* request is issued only after that response has been received and carries
\* tags=comment, hitsPerPage=100 whatever the caller supplied, and
\* filters=parent_id=<story_id of the first hit of the first response>.
C9_SecondRequestShape ==
  (op = "whoIsHiring" /\ Len(requests) >= 1) =>
    /\ UrlPath(requests[1].url) = client.baseUrl \o <<"/", "search_by_date">>
    /\ RequestValues(requests[1], "tags")
         = << <<"story", ",", "author_", "whoishiring">> >>
    /\ RequestValues(requests[1], "hitsPerPage") = << <<"1">> >>
    /\ Len(requests) >= 2 =>
         /\ IsDefined(firstRes)
         /\ Len(Val(firstRes).data) >= 1
         /\ RequestValues(requests[2], "tags") = << <<"comment">> >>
         /\ RequestValues(requests[2], "hitsPerPage") = << <<"100">> >>
         /\ RequestValues(requests[2], "filters")
              = << <<"parent_id", "=">>
                     \o NumberToString(Val(firstRes).data[1].data.story_id) >>

C9_Witness ==
  /\ op = "whoIsHiring" /\ step = 2 /\ pc = "fetching"
  /\ Len(requests) = 2
  /\ args.params.hitsPerPage = Some(5)
  /\ Len(Val(firstRes).data) = 2
  /\ Val(firstRes).data[1].data.story_id # Val(firstRes).data[2].data.story_id
  /\ RequestValues(requests[2], "hitsPerPage") = << <<"100">> >>

\* C10: whoIsHiring never issues more than two requests; when the first
\* request fails the second is never issued and whoIsHiring fails, and when
\* the second request fails whoIsHiring fails instead of returning the first
\* response.
C10_FailurePropagates ==
  op = "whoIsHiring" =>
    /\ Len(requests) <= 2
    /\ Len(requests) = step
    /\ (IsDefined(response) /\ ~Success(Val(response).status)) =>
         (pc = "failed" /\ ~IsDefined(result) /\ IsDefined(error))
    /\ IsDefined(error) => (pc = "failed" /\ ~IsDefined(result))
    /\ pc = "failed" => IsDefined(error)

C10_Witness ==
  /\ op = "whoIsHiring" /\ step = 2 /\ pc = "failed"
  /\ IsDefined(firstRes)
  /\ IsDefined(response) /\ Val(response).status = 404
  /\ ~IsDefined(result)

\* C11: whatever params the caller passes, the request of frontPage has tags
\* front_page,story and exactly one numeric filter, created_at_i>=N with N
\* the call-time Unix time in seconds minus 604800.
C11_FrontPageFilter ==
  (op = "frontPage" /\ Len(requests) >= 1) =>
    /\ Len(requests) = 1
    /\ RequestValues(requests[1], "tags") = << <<"front_page", ",", "story">> >>
    /\ LET seconds == (args.now - (args.now % 1000)) \div 1000
       IN  RequestValues(requests[1], "numericFilters")
             = << <<"created_at_i", ">", "=", ToString(seconds - 604800)>> >>

C11_Witness ==
  /\ op = "frontPage" /\ pc = "fetching"
  /\ IsDefined(args.params.numericFilters)
  /\ IsDefined(args.params.tags)
  /\ args.now = 604800999
  /\ RequestValues(requests[1], "numericFilters")
       = << <<"created_at_i", ">", "=", "0">> >>

\* C12: the createdAt accessor of an object whose created_at cannot be
\* parsed as a date returns null, also when created_at is a non-empty string
\* that is not ISO-8601.
C12_CreatedAtNullWhenUnparsable ==
  IsDefined(view) =>
    LET obj == Val(result).data[Val(view).index]
    IN  ~IsDefined(IsoTime(obj.data.created_at))
          => Val(view).value.createdAt = Undefined

\* C15: the url accessor of a StoryObject is the raw url when the raw url is
\* present (the empty string included), and the permalink otherwise.
C15_StoryUrl ==
  (IsDefined(view) /\ Val(view).value.type = "story") =>
    LET obj == Val(result).data[Val(view).index]
    IN  Val(view).value.url =
          Some(IF obj.data.url # Undefined THEN Val(obj.data.url)
               ELSE <<"https://news.ycombinator.com/item?id=">> \o obj.data.objectID)

C15_Witness ==
  /\ IsDefined(view)
  /\ Val(view).value.type = "story"
  /\ Val(view).index = 2
  /\ Val(result).data[1].data.url = Some(<<>>)
  /\ Val(result).data[2].data.url = Undefined
  /\ Val(view).value.url = Some(<<"https://news.ycombinator.com/item?id=", "7">>)

\* C16: isRootComment of a CommentObject is true exactly when parent_id is
\* present and equals story_id.
C16_IsRootComment ==
  (IsDefined(view) /\ Val(view).value.type = "comment") =>
    LET obj == Val(result).data[Val(view).index]
    IN  Val(view).value.isRootComment =
          Some(IsDefined(obj.data.parent_id)
               /\ Val(obj.data.parent_id) = obj.data.story_id)

C16_Witness ==
  /\ IsDefined(view)
  /\ Val(view).value.type = "comment"
  /\ Val(result).data[Val(view).index].data.parent_id = Undefined
  /\ Val(view).value.isRootComment = Some(FALSE)
  /\ \E i \in 1..Len(Val(result).data) :
       /\ Val(result).data[i].type = "comment"
       /\ Val(result).data[i].data.parent_id = Some(7)

\* The tags parameter a call has produced: of the query string
\* buildSearchParams returned, or of the request search issued.
TagsSent ==
  IF op = "buildSearchParams" THEN ValuesOf(ParseQuery(Val(result)), "tags")
  ELSE RequestValues(requests[1], "tags")

TagsCallMade ==
  \/ op = "buildSearchParams" /\ pc = "returned"
  \/ op = "search" /\ Len(requests) = 1

\* C13: for a non-empty tags list the tags parameter is the comma-join of the
\* elements in list order, a plain tag giving its token and an OrTags group
\* giving "(" + the comma-join of its members + ")"; an empty list gives no
\* tags parameter.
C13_TagsCommaJoined ==
  (TagsCallMade /\ IsDefined(args.params.tags)) =>
    LET list == Val(args.params.tags)
        token(e) == IF e.or THEN <<"(">> \o Join(e.tags, <<",">>) \o <<")">>
                    ELSE e.tags[1]
    IN  TagsSent = IF list = <<>> THEN <<>>
                   ELSE <<Join([i \in 1..Len(list) |-> token(list[i])], <<",">>)>>

C13_Witness ==
  /\ op = "search" /\ pc = "returned"
  /\ args.params.tags = Some(<<OrTags_from(<<STORY, COMMENT>>),
                               PlainTag(createAuthorTag(<<"pg">>))>>)
  /\ TagsSent = << <<"(", "story", ",", "comment", ")", ",", "author_", "pg">> >>

HasEmptyGroup(tags) ==
  IsDefined(tags) /\ \E i \in 1..Len(Val(tags)) : Val(tags)[i].or /\ Val(tags)[i].tags = <<>>

\* C14: a tags list holding an OR-group with no member is rejected with an
\* InvalidArgument failure; no query string is built from it and no request
\* is issued for it.
C14_EmptyOrGroupRejected ==
  (op \in {"buildSearchParams", "search"} /\ HasEmptyGroup(args.params.tags)) =>
    /\ requests = <<>>
    /\ result = Undefined
    /\ pc = "failed"
    /\ error # Undefined /\ Val(error).name = "InvalidArgument"

\* The client that differs from this one only in its debug and objDebug
\* flags, and what it issues and returns for the same call and response.
TwinClient(d, od) == [client EXCEPT !.debug = d, !.objDebug = od]

TwinRequest(twin) ==
  [url |-> searchUrl(twin.baseUrl, args.params), init |-> withUserAgent(args.init)]

TwinResult(twin) == searchResponse(Val(response).body, twin.objDebug)

WithoutDebugField(res) ==
  [res EXCEPT !.data = [i \in DOMAIN res.data |-> [res.data[i] EXCEPT !.debug = FALSE]]]

\* C17 as stated: a client that differs only in debug and objDebug issues
\* the same request and returns a result equal in meta and in every field of
\* every data object.
C17_DebugNotObservable ==
  SearchReturned =>
    \A d \in BOOLEAN, od \in BOOLEAN :
      /\ TwinRequest(TwinClient(d, od)) = requests[1]
      /\ TwinResult(TwinClient(d, od)) = Val(result)

\* C17: a client that differs only in debug and objDebug issues the same
\* request and returns a result equal in meta and in every field of every
\* data object except the object's debug field, which holds the objDebug flag
\* of the client that built it.
C17_DebugOnlyInDebugField ==
  SearchReturned =>
    /\ \A i \in 1..Len(Val(result).data) :
         Val(result).data[i].debug = client.objDebug
    /\ \A d \in BOOLEAN, od \in BOOLEAN :
         /\ TwinRequest(TwinClient(d, od)) = requests[1]
         /\ WithoutDebugField(TwinResult(TwinClient(d, od)))
              = WithoutDebugField(Val(result))
         /\ \A i \in 1..Len(Val(result).data) :
              TwinResult(TwinClient(d, od)).data[i].debug = od

C17_Witness ==
  /\ SearchReturned
  /\ client.debug /\ client.objDebug
  /\ Len(Val(result).data) = 2
  /\ Val(result).data[1].type = "story"
  /\ TwinResult(TwinClient(FALSE, FALSE)) # Val(result)
  /\ WithoutDebugField(TwinResult(TwinClient(FALSE, FALSE)))
       = WithoutDebugField(Val(result))

\* C19: every request a public call issues is issued with the abort signal
\* the caller supplied to that call.
C19_CallerOptionsOnEveryRequest ==
  (op \in {"search", "frontPage", "whoIsHiring"}) =>
    \A n \in 1..Len(requests) : requests[n].init.signal = args.init.signal

\* C20: every request of search and of the item API is sent with exactly one
\* User-Agent value, the identification string of the library, whatever
\* headers the caller's request options hold.
C20_UserAgentOnEveryRequest ==
  (op \in {"search", "HNAPI"}) =>
    \A n \in 1..Len(requests) :
      HeaderValues(Val(requests[n].init.headers), "User-Agent")
        = {<<"hn-client/", "VERSION", " (+https://github.com/j3lte/hn-client)">>}

\* What a call with these parameters requests and, for a response, returns
\* or fails with, on a client with this configuration and no other call.
AloneRequest(params) ==
  [url |-> searchUrl(client.baseUrl, params), init |-> withUserAgent(NoInit)]

AloneResult(resp) == Some(searchResponse(resp.body, client.objDebug))

CallDeterminedByOwn(c) ==
  c.pc # "idle" =>
    /\ c.request = AloneRequest(c.params)
    /\ c.pc # "fetching" =>
         /\ c.response # Undefined
         /\ Val(c.response) \in ResponsesFor(AloneRequest(c.params).url)
    /\ c.pc = "returned" =>
         /\ Success(Val(c.response).status)
         /\ c.result = AloneResult(Val(c.response))
         /\ Val(c.result).data[1].data.objectID = Val(c.params.query)
    /\ c.pc = "failed" =>
         /\ ~Success(Val(c.response).status)
         /\ c.result = Undefined
         /\ c.error = Some(HttpError(Val(c.response).status))

\* C18: with several search calls in flight on one client, in every
\* interleaving, each call's request, result and failure are those of its own
\* parameters and of the response to its own request, and no step changes the
\* configuration of the client.
C18_ConcurrentCallsIndependent ==
  /\ [](\A k \in 1..MaxCalls : CallDeterminedByOwn(calls[k]))
  /\ [][client' = client]_vars

C18_Witness ==
  /\ calls[1].pc = "returned" /\ calls[2].pc = "fetching"
  /\ calls[1].params # calls[2].params
  /\ Val(calls[1].params.query) = <<"go">>
  /\ Val(calls[1].result).data[1].data.objectID = <<"go">>
  /\ init = withUserAgent(NoInit)

\* C21: the meta of a returned search copies the upstream envelope field by
\* field; meta.hitsPerPage is the upstream value whatever page size the call
\* asked for.
C21_MetaCopiesEnvelope ==
  SearchReturned =>
    LET meta == Val(result).meta
        body == Val(response).body
    IN  /\ DOMAIN meta = {"hitsPerPage", "numberOfHits", "numberOfPages",
                          "currentPage", "timeMsProcessing", "timeMsServer"}
        /\ meta.hitsPerPage = body.hitsPerPage
        /\ meta.numberOfHits = body.nbHits
        /\ meta.numberOfPages = body.nbPages
        /\ meta.currentPage = body.page
        /\ meta.timeMsProcessing = body.processingTimeMS
        /\ meta.timeMsServer = body.serverTimeMS

C21_Witness ==
  /\ SearchReturned
  /\ args.params.hitsPerPage = Some(50)
  /\ RequestValues(requests[1], "hitsPerPage") = << <<"50">> >>
  /\ Val(result).meta.hitsPerPage = 20
  /\ Val(result).meta.numberOfHits = 40

\* The names of the parameters a request carries, in order.
RequestNames(request) ==
  LET pairs == ParseQuery(UrlQuery(request.url))
  IN  [n \in 1..Len(pairs) |-> pairs[n].name]

ClaimedFacadeTags(method, u) ==
  CASE method = "newest" -> <<"(", "story", ",", "poll", ")">>
    [] method = "comments" -> <<"comment">>
    [] method = "askHN" -> <<"ask_hn">>
    [] method = "showHN" -> <<"show_hn">>
    [] method = "polls" -> <<"poll">>
    [] method = "jobs" -> <<"job">>
    [] method = "userAll" ->
         <<"(", "story", ",", "comment", ",", "poll", ")", ",", "author_">> \o u
    [] method = "userThreads" -> <<"comment", ",", "author_">> \o u
    [] method = "userSubmitted" ->
         <<"(", "story", ",", "poll", ")", ",", "author_">> \o u

OtherParameters ==
  {"query", "numericFilters", "optionalWords", "page", "filters", "hitsPerPage",
   "restrictSearchableAttributes"}

\* C25: each facade method sends its fixed tags value, whatever tags the
\* caller's params hold, and every other parameter as search sends it for the
\* caller's params.
C25_FacadeFixedTags ==
  (op \in PlainMethods \cup UserMethods /\ Len(requests) >= 1) =>
    /\ Len(requests) = 1
    /\ RequestValues(requests[1], "tags") = <<ClaimedFacadeTags(op, args.userName)>>
    /\ UrlPath(requests[1].url) = UrlPath(searchUrl(client.baseUrl, args.params))
    /\ \A name \in OtherParameters :
         RequestValues(requests[1], name)
           = ValuesOf(ParseQuery(UrlQuery(searchUrl(client.baseUrl, args.params))), name)

C25_Witness ==
  /\ op = "userAll" /\ pc = "returned"
  /\ args.userName = <<"pg">>
  /\ args.params.tags = Some(<<PlainTag(COMMENT)>>)
  /\ args.params.query = Some(<<"rust">>)
  /\ RequestValues(requests[1], "query") = << <<"rust">> >>
  /\ RequestValues(requests[1], "tags")
       = << <<"(", "story", ",", "comment", ",", "poll", ")", ",", "author_", "pg">> >>

\* The object search returns for this raw hit when it is the only hit of a
\* response.
NormalizedAlone(hit) ==
  searchResponse(Envelope(<<hit>>), client.objDebug).data[1]

FailedOnStatus ==
  /\ op \in {"search", "whoIsHiring"}
  /\ pc = "failed"
  /\ response # Undefined
  /\ ~Success(Val(response).status)

\* The failure carries this text: as a field, or as a part of its message.
Carried(e, text) ==
  \/ \E f \in DOMAIN e : e[f] = text
  \/ \E n \in 1..Len(e.message) : e.message[n] = text

\* C24 as stated: the failure of a search that received a non-success
\* response carries the status code and the status text of the response.
C24_ErrorCarriesStatusAndText ==
  FailedOnStatus =>
    /\ Carried(Val(error), ToString(Val(response).status))
    /\ Carried(Val(error), Val(response).statusText)

\* C24: the failure of a search that received a non-success response is an
\* Error whose message is "HTTP error! status: " followed by the status code;
\* it carries the status code and does not carry the status text.
C24_ErrorCarriesStatusOnly ==
  FailedOnStatus =>
    /\ Val(error) = [name |-> "Error",
                     message |-> <<"HTTP error! status: ", ToString(Val(response).status)>>]
    /\ Carried(Val(error), ToString(Val(response).status))
    /\ ~Carried(Val(error), Val(response).statusText)

C24_Witness ==
  /\ FailedOnStatus
  /\ op = "search"
  /\ Val(response).status = 404
  /\ Val(response).statusText = "Not Found"
  /\ Val(error).message = <<"HTTP error! status: ", "404">>

BuildReturned == op = "buildSearchParams" /\ pc = "returned"

\* The values the built query string carries under a name.
Built(name) == ValuesOf(ParseQuery(Val(result)), name)

\* Each optional key is emitted exactly when its presence check holds, with
\* the value the builder is to give it.
PresenceChecksHold ==
  LET q == args.params.query
      t == args.params.tags
      n == args.params.numericFilters
      w == args.params.optionalWords
      f == args.params.filters
      pg == args.params.page
  IN  /\ Built("query") = IF q # Undefined /\ Val(q) # <<>> THEN <<Val(q)>> ELSE <<>>
      /\ Len(Built("tags")) = IF t # Undefined /\ Val(t) # <<>> THEN 1 ELSE 0
      /\ Built("numericFilters") =
           IF n # Undefined /\ Val(n) # <<>> THEN <<Join(Val(n), <<",">>)>> ELSE <<>>
      /\ Built("optionalWords") =
           IF w # Undefined /\ Val(w) # <<>> THEN <<Join(Val(w), <<" ">>)>> ELSE <<>>
      /\ Built("filters") = IF f # Undefined /\ Val(f) # <<>> THEN <<Val(f)>> ELSE <<>>
      /\ Built("page") = IF pg # Undefined THEN <<<<ToString(Val(pg))>>>> ELSE <<>>

OptionalKeys ==
  {"query", "tags", "numericFilters", "optionalWords", "filters", "page"}

\* C26 as stated: buildSearchParams emits each optional key exactly when its
\* presence check holds, and never with an empty value.
C26_PresenceNeverEmpty ==
  BuildReturned =>
    /\ PresenceChecksHold
    /\ \A name \in OptionalKeys :
         \A k \in 1..Len(Built(name)) : Built(name)[k] # <<>>

\* C26: buildSearchParams emits each optional key exactly when its presence
\* check holds; the value is never empty, except that of optionalWords when
\* the list is the one empty word.
C26_PresenceChecks ==
  BuildReturned =>
    /\ PresenceChecksHold
    /\ \A name \in OptionalKeys :
         \A k \in 1..Len(Built(name)) :
           Built(name)[k] = <<>>
             <=> (name = "optionalWords" /\ args.params.optionalWords = Some(<< <<>> >>))

C26_Witness ==
  /\ BuildReturned
  /\ args.params.page = Some(0)
  /\ args.params.query = Some(<<>>)
  /\ args.params.optionalWords = Some(<< <<>> >>)
  /\ args.params.filters = Some(<<>>)
  /\ Built("page") = << <<"0">> >>
  /\ Built("query") = <<>>
  /\ Built("optionalWords") = << <<>> >>

\* C27 as stated: buildSearchParams on its own always emits hitsPerPage: 100
\* when the input has none, the clamped value otherwise.
C27_BuilderClampsHitsPerPage ==
  BuildReturned =>
    Built("hitsPerPage")
      = <<NumberToString(ClaimedHitsPerPage(args.params.hitsPerPage))>>

\* C27: buildSearchParams on its own emits hitsPerPage exactly when the input
\* has one, with the value of the input, neither filled in nor clamped.
C27_BuilderPassesHitsPerPage ==
  BuildReturned =>
    Built("hitsPerPage")
      = IF args.params.hitsPerPage # Undefined
        THEN << <<ToString(Val(args.params.hitsPerPage))>> >>
        ELSE <<>>

C27_Witness ==
  /\ BuildReturned
  /\ args.params.hitsPerPage = Some(500)
  /\ Built("hitsPerPage") = << <<"500">> >>

C29_HasExternalUrlAgrees ==
  (view # Undefined /\ Val(view).value.type = "story") =>
    LET obj == Val(result).data[Val(view).index]
        link == <<"https://news.ycombinator.com/item?id=">> \o obj.data.objectID
    IN  /\ Val(view).value.hasExternalUrl = Some(obj.data.url # Undefined)
        /\ (Val(view).value.url = Some(link))
             <=> (Val(view).value.hasExternalUrl = Some(FALSE))

\* C30: after search has been called, the options object the caller passed is
\* equal to what it was before the call.
C30_InitUnchanged ==
  op = "search" => init = args.init

====
